---- MODULE Spec2Model ----
(***************************************************************************)
(* Model of the AFEM Boolean-operation facade (afem/topology/bop.py) and   *)
(* of the 1-D point marshalling functions (afem/utils/tcol.py).            *)
(*                                                                         *)
(* The facade wraps one OpenCASCADE engine object (self._bop).  The engine *)
(* is modelled by the record `bop`: the operands it has received, its      *)
(* status flags, its result, and `trace`, the engine methods invoked by    *)
(* the facade operation that ran last.                                     *)
(***************************************************************************)
EXTENDS Integers, Sequences, FiniteSets, TLC

(* ------------------------------ bounds --------------------------------- *)
\* longest sequence handed to set_args / set_tools
MaxLen == 2
\* most operands a splitter engine accumulates in one role
MaxOperands == 2
\* longest host sequence handed to a point conversion
MaxPnts == 3

(* ------------------------------ values --------------------------------- *)
\* two distinct valid shapes (e1, e2 of the usage examples)
Shapes == {"e1", "e2"}
\* None and a value that is not a shape
NonShapes == {"None", "junk"}
Values == Shapes \cup NonShapes

\* fuzzy_val is <<>> for None, <<v>> for a tolerance v
\* (parallel, fuzzy_val) as passed to a constructor: the defaults, and
\* parallel mode off with a tolerance
Configs == {<<TRUE, <<>> >>, <<FALSE, <<1>> >>}

Splitter == "GEOMAlgo_Splitter"
EngineOf == [FuseShapes |-> "BRepAlgoAPI_Fuse", CutShapes |-> "BRepAlgoAPI_Cut",
             CommonShapes |-> "BRepAlgoAPI_Common",
             IntersectShapes |-> "BRepAlgoAPI_Section",
             SplitShapes |-> "GEOMAlgo_Splitter"]
Variants == DOMAIN EngineOf
NonSplit == Variants \ {"SplitShapes"}

SeqsUpTo(S, n) == UNION {[1..k -> S] : k \in 0..n}

NullShape == "null"

\* the lists handed to set_args / set_tools: the empty list and the lists of
\* up to n shapes that alternate between the two shapes
Other(x) == CHOOSE y \in Shapes : y # x
ShapeLists(n) ==
    {<<>>} \cup {[i \in 1..k |-> IF i % 2 = 1 THEN x ELSE Other(x)] :
                    x \in Shapes, k \in 1..n}

VARIABLES pc, kind, bop, lastCall, ctorValid, buildCalled, refineCalled,
          lastArgs, lastTools, acc,
          tpc, rangeChecked, tfn, tin, tout, tnp

bopVars == <<pc, kind, bop, lastCall, ctorValid, buildCalled, refineCalled,
             lastArgs, lastTools, acc>>
tcolVars == <<tpc, rangeChecked, tfn, tin, tout, tnp>>
vars == <<pc, kind, bop, lastCall, ctorValid, buildCalled, refineCalled,
          lastArgs, lastTools, acc,
          tpc, rangeChecked, tfn, tin, tout, tnp>>

(* --------------------------- the engine -------------------------------- *)
\* CheckShape.is_shape: the value is a kernel shape
is_shape(v) == v \in Shapes

\* to_toptools_listofshape: a kernel list holding the shapes in order
RECURSIVE to_toptools_listofshape(_)
to_toptools_listofshape(shapes) ==
    IF shapes = <<>> THEN <<>>
    ELSE <<Head(shapes)>> \o to_toptools_listofshape(Tail(shapes))

Called(e, m) == [e EXCEPT !.trace = Append(@, m)]

\* the engine's execution (Build of the BRepAlgoAPI engines, Perform of the
\* splitter): it completes when the engine holds operands to work on, an
\* argument and a tool for the Boolean engines, two shapes for the splitter
Execute(e, m) ==
    LET ok == IF e.cls = Splitter
              THEN Len(e.args) + Len(e.tools) >= 2
              ELSE Len(e.args) >= 1 /\ Len(e.tools) >= 1
    IN  [Called(e, m) EXCEPT !.done = ok,
                             !.err = IF ok THEN 0 ELSE 100,
                             !.shape = IF ok THEN e.cls ELSE NullShape]

\* bop(): an engine without operands, not executed
NewEngine(cls) ==
    [cls |-> cls, args |-> <<>>, tools |-> <<>>, parallel |-> FALSE,
     fuzzy |-> <<>>, done |-> FALSE, err |-> 1, shape |-> NullShape,
     refined |-> FALSE, trace |-> <<cls>>]

\* bop(shape1, shape2): the two-operand constructor of the BRepAlgoAPI
\* engines takes shape1 as argument, shape2 as tool, and builds the result
NewEngine2(cls, shape1, shape2) ==
    Execute([NewEngine(cls) EXCEPT !.args = <<shape1>>, !.tools = <<shape2>>],
            "Build")

SetRunParallel(e, flag) == [Called(e, "SetRunParallel") EXCEPT !.parallel = flag]
SetFuzzyValue(e, f) == [Called(e, "SetFuzzyValue") EXCEPT !.fuzzy = f]
AddArgument(e, s) == [Called(e, "AddArgument") EXCEPT !.args = Append(@, s)]
AddTool(e, s) == [Called(e, "AddTool") EXCEPT !.tools = Append(@, s)]
SetArguments(e, l) == [Called(e, "SetArguments") EXCEPT !.args = l]
SetTools(e, l) == [Called(e, "SetTools") EXCEPT !.tools = l]
RefineEdges(e) == [Called(e, "RefineEdges") EXCEPT !.refined = TRUE]

\* FuseEdges(): the flag set by RefineEdges
FuseEdges(e) == e.refined
\* SectionEdges(): the edges where the operands intersect, once built
SectionEdges(e) == IF e.done THEN <<"edge">> ELSE <<>>

\* to_lst_from_toptools_listofshape: a host list holding the shapes in order
RECURSIVE to_lst_from_toptools_listofshape(_)
to_lst_from_toptools_listofshape(l) ==
    IF l = <<>> THEN <<>>
    ELSE <<Head(l)>> \o to_lst_from_toptools_listofshape(Tail(l))

\* a facade operation starts with an empty trace
Begin(e) == [e EXCEPT !.trace = <<>>]

(* --------------------------- the facade -------------------------------- *)
\* variant: the operand test accepts one valid operand
BopAlgo_init_or(shape1, shape2, parallel, fuzzy_val, cls) ==
    LET e0 == IF is_shape(shape1) \/ is_shape(shape2)
              THEN NewEngine2(cls, shape1, shape2)
              ELSE NewEngine(cls)
        e1 == IF parallel THEN SetRunParallel(e0, TRUE) ELSE e0
    IN  IF fuzzy_val # <<>> THEN SetFuzzyValue(e1, fuzzy_val) ELSE e1

\* variant: two valid operands are only stored in a no-operand engine
BopAlgo_init_lazy(shape1, shape2, parallel, fuzzy_val, cls) ==
    LET e0 == IF is_shape(shape1) /\ is_shape(shape2)
              THEN SetTools(SetArguments(NewEngine(cls), <<shape1>>), <<shape2>>)
              ELSE NewEngine(cls)
        e1 == IF parallel THEN SetRunParallel(e0, TRUE) ELSE e0
    IN  IF fuzzy_val # <<>> THEN SetFuzzyValue(e1, fuzzy_val) ELSE e1

BopAlgo_init(shape1, shape2, parallel, fuzzy_val, cls) ==
    LET e0 == IF is_shape(shape1) /\ is_shape(shape2)
              THEN NewEngine2(cls, shape1, shape2)
              ELSE NewEngine(cls)
        e1 == IF parallel THEN SetRunParallel(e0, TRUE) ELSE e0
    IN  IF fuzzy_val # <<>> THEN SetFuzzyValue(e1, fuzzy_val) ELSE e1

\* variant: the constructor adds the operands and does not perform
SplitShapes_init_noperform(shape1, shape2, parallel, fuzzy_val) ==
    LET e0 == BopAlgo_init("None", "None", parallel, fuzzy_val, Splitter)
    IN  IF is_shape(shape1) /\ is_shape(shape2)
        THEN AddArgument(AddArgument(e0, shape1), shape2)
        ELSE e0

SplitShapes_init(shape1, shape2, parallel, fuzzy_val) ==
    LET e0 == BopAlgo_init("None", "None", parallel, fuzzy_val, Splitter)
    IN  IF is_shape(shape1) /\ is_shape(shape2)
        THEN Execute(AddArgument(AddArgument(e0, shape1), shape2), "Perform")
        ELSE e0

_is_splitter(e) == e.cls = Splitter

is_done(e) == IF _is_splitter(e) THEN e.err = 0 ELSE e.done

shape(e) == e.shape

RECURSIVE AddArguments(_, _)
AddArguments(e, shapes) ==
    IF shapes = <<>> THEN e
    ELSE AddArguments(AddArgument(e, Head(shapes)), Tail(shapes))

\* variant: the splitter loop runs to the end of the sequence
set_args_all(e, shapes) ==
    IF _is_splitter(e) /\ shapes # <<>>
    THEN AddArguments(e, shapes)
    ELSE SetArguments(e, to_toptools_listofshape(shapes))

\* variant: the splitter keeps only the shape of the latest call
set_args_last(e, shapes) ==
    IF _is_splitter(e) /\ shapes # <<>>
    THEN SetArguments(e, <<shapes[1]>>)
    ELSE SetArguments(e, to_toptools_listofshape(shapes))

set_args_(e, shapes) ==
    IF _is_splitter(e) /\ shapes # <<>>
    THEN AddArgument(e, shapes[1])
    ELSE SetArguments(e, to_toptools_listofshape(shapes))

\* variant: the Boolean engines keep the tools they already hold
set_tools_append(e, shapes) ==
    IF _is_splitter(e) /\ shapes # <<>>
    THEN AddTool(e, shapes[1])
    ELSE SetTools(e, e.tools \o to_toptools_listofshape(shapes))

set_tools_(e, shapes) ==
    IF _is_splitter(e) /\ shapes # <<>>
    THEN AddTool(e, shapes[1])
    ELSE SetTools(e, to_toptools_listofshape(shapes))

\* variant: only the Boolean engines are executed
build_nosplit(e) == IF _is_splitter(e) THEN e ELSE Execute(e, "Build")

build_(e) == IF _is_splitter(e) THEN Execute(e, "Perform") ELSE Execute(e, "Build")

\* variant: the request is forwarded to every engine
refine_edges_always(e) == [bop |-> RefineEdges(e), warn |-> <<>>]

\* refine_edges: the engine afterwards and the warnings emitted
refine_edges_(e) ==
    IF _is_splitter(e)
    THEN [bop |-> e, warn |-> <<"RuntimeWarning">>]
    ELSE [bop |-> RefineEdges(e), warn |-> <<>>]

\* fuse_edges: the engine afterwards and the flag returned
fuse_edges_(e) ==
    IF _is_splitter(e)
    THEN [bop |-> e, flag |-> FALSE]
    ELSE [bop |-> Called(e, "FuseEdges"), flag |-> FuseEdges(e)]

\* section_edges: the engine afterwards, the list returned, the warnings
section_edges_(e) ==
    IF _is_splitter(e)
    THEN [bop |-> e, ret |-> <<>>, warn |-> <<"RuntimeWarning">>]
    ELSE [bop |-> Called(e, "SectionEdges"),
          ret |-> to_lst_from_toptools_listofshape(SectionEdges(e)),
          warn |-> <<>>]

add_arg_(e, s) == AddArgument(e, s)

add_tool_(e, s) == AddTool(e, s)

Call(op, in, ret, flag, warn) ==
    [op |-> op, in |-> in, ret |-> ret, flag |-> flag, warn |-> warn]

NotSet == [set |-> FALSE, val |-> <<>>]
WasSet(s) == [set |-> TRUE, val |-> s]

InitBop ==
    /\ pc = "new"
    /\ kind = "none"
    /\ bop = NewEngine("none")
    /\ lastCall = Call("none", <<>>, <<>>, FALSE, <<>>)
    /\ ctorValid = FALSE
    /\ buildCalled = FALSE
    /\ refineCalled = FALSE
    /\ lastArgs = NotSet
    /\ lastTools = NotSet
    /\ acc = [args |-> <<>>, tools |-> <<>>, byAdd |-> FALSE]

TcolIdle ==
    /\ tpc = "idle"
    /\ rangeChecked = FALSE
    /\ tfn = "none"
    /\ tin = <<>>
    /\ tout = [raised |-> FALSE, lower |-> 0, upper |-> 0, data |-> <<>>]
    /\ tnp = <<>>

Init == InitBop /\ TcolIdle

\* FuseShapes(...), CutShapes(...), CommonShapes(...), IntersectShapes(...)
Construct_BopAlgo ==
    \E k \in NonSplit, s1 \in Values, s2 \in Values, c \in Configs :
        /\ pc = "new"
        /\ pc' = "ready"
        /\ kind' = k
        /\ bop' = BopAlgo_init(s1, s2, c[1], c[2], EngineOf[k])
        /\ UNCHANGED acc
        /\ lastCall' = Call("init", <<s1, s2>>, <<>>, FALSE, <<>>)
        /\ ctorValid' = (is_shape(s1) /\ is_shape(s2))
        /\ UNCHANGED <<buildCalled, refineCalled, lastArgs, lastTools>>
        /\ UNCHANGED tcolVars

\* SplitShapes(...)
Construct_SplitShapes ==
    \E s1 \in Values, s2 \in Values, c \in Configs :
        /\ pc = "new"
        /\ pc' = "ready"
        /\ kind' = "SplitShapes"
        /\ bop' = SplitShapes_init(s1, s2, c[1], c[2])
        /\ acc' = [acc EXCEPT !.args = bop'.args, !.tools = bop'.tools]
        /\ lastCall' = Call("init", <<s1, s2>>, <<>>, FALSE, <<>>)
        /\ ctorValid' = (is_shape(s1) /\ is_shape(s2))
        /\ UNCHANGED <<buildCalled, refineCalled, lastArgs, lastTools>>
        /\ UNCHANGED tcolVars

set_args ==
    \E shapes \in ShapeLists(MaxLen) :
        /\ pc = "ready"
        /\ _is_splitter(bop) /\ shapes # <<>> => Len(bop.args) < MaxOperands
        /\ bop' = set_args_(Begin(bop), shapes)
        /\ lastCall' = Call("set_args", shapes, <<>>, FALSE, <<>>)
        /\ lastArgs' = WasSet(shapes)
        /\ acc' = IF kind # "SplitShapes" THEN acc
                  ELSE IF shapes = <<>> THEN [acc EXCEPT !.args = <<>>]
                  ELSE [acc EXCEPT !.args = Append(@, shapes[1])]
        /\ UNCHANGED <<pc, kind, ctorValid, buildCalled, refineCalled, lastTools>>
        /\ UNCHANGED tcolVars

set_tools ==
    \E shapes \in ShapeLists(MaxLen) :
        /\ pc = "ready"
        /\ _is_splitter(bop) /\ shapes # <<>> => Len(bop.tools) < MaxOperands
        /\ bop' = set_tools_(Begin(bop), shapes)
        /\ lastCall' = Call("set_tools", shapes, <<>>, FALSE, <<>>)
        /\ lastTools' = WasSet(shapes)
        /\ acc' = IF kind # "SplitShapes" THEN acc
                  ELSE IF shapes = <<>> THEN [acc EXCEPT !.tools = <<>>]
                  ELSE [acc EXCEPT !.tools = Append(@, shapes[1])]
        /\ UNCHANGED <<pc, kind, ctorValid, buildCalled, refineCalled, lastArgs>>
        /\ UNCHANGED tcolVars

build ==
    /\ pc = "ready"
    /\ bop' = build_(Begin(bop))
    /\ lastCall' = Call("build", <<>>, <<>>, FALSE, <<>>)
    /\ buildCalled' = TRUE
    /\ UNCHANGED <<pc, kind, ctorValid, refineCalled, lastArgs, lastTools>>
    /\ UNCHANGED acc
    /\ UNCHANGED tcolVars

refine_edges ==
    /\ pc = "ready"
    /\ bop' = refine_edges_(Begin(bop)).bop
    /\ lastCall' = Call("refine_edges", <<>>, <<>>, FALSE, refine_edges_(Begin(bop)).warn)
    /\ refineCalled' = TRUE
    /\ UNCHANGED <<pc, kind, ctorValid, buildCalled, lastArgs, lastTools>>
    /\ UNCHANGED acc
    /\ UNCHANGED tcolVars

fuse_edges ==
    /\ pc = "ready"
    /\ bop' = fuse_edges_(Begin(bop)).bop
    /\ lastCall' = Call("fuse_edges", <<>>, <<>>, fuse_edges_(Begin(bop)).flag, <<>>)
    /\ UNCHANGED <<pc, kind, ctorValid, buildCalled, refineCalled, lastArgs, lastTools>>
    /\ UNCHANGED acc
    /\ UNCHANGED tcolVars

section_edges ==
    /\ pc = "ready"
    /\ bop' = section_edges_(Begin(bop)).bop
    /\ lastCall' = Call("section_edges", <<>>, section_edges_(Begin(bop)).ret, FALSE,
                        section_edges_(Begin(bop)).warn)
    /\ UNCHANGED <<pc, kind, ctorValid, buildCalled, refineCalled, lastArgs, lastTools>>
    /\ UNCHANGED acc
    /\ UNCHANGED tcolVars

\* SplitShapes.add_arg
add_arg ==
    \E s \in Shapes :
        /\ pc = "ready"
        /\ kind = "SplitShapes"
        /\ Len(bop.args) < MaxOperands
        /\ bop' = add_arg_(Begin(bop), s)
        /\ acc' = [acc EXCEPT !.args = Append(@, s), !.byAdd = TRUE]
        /\ lastCall' = Call("add_arg", <<s>>, <<>>, FALSE, <<>>)
        /\ UNCHANGED <<pc, kind, ctorValid, buildCalled, refineCalled, lastArgs, lastTools>>
        /\ UNCHANGED tcolVars

\* SplitShapes.add_tool
add_tool ==
    \E s \in Shapes :
        /\ pc = "ready"
        /\ kind = "SplitShapes"
        /\ Len(bop.tools) < MaxOperands
        /\ bop' = add_tool_(Begin(bop), s)
        /\ acc' = [acc EXCEPT !.tools = Append(@, s), !.byAdd = TRUE]
        /\ lastCall' = Call("add_tool", <<s>>, <<>>, FALSE, <<>>)
        /\ UNCHANGED <<pc, kind, ctorValid, buildCalled, refineCalled, lastArgs, lastTools>>
        /\ UNCHANGED tcolVars

NextBop ==
    \/ Construct_BopAlgo
    \/ Construct_SplitShapes
    \/ set_args
    \/ set_tools
    \/ build
    \/ refine_edges
    \/ fuse_edges
    \/ section_edges
    \/ add_arg
    \/ add_tool

Spec == Init /\ [][NextBop]_vars

(* ---------------------- point marshalling (tcol) ----------------------- *)
\* A host element is [t, c, num]: t is its type ("gp_Pnt", "gp_Pnt2d",
\* "list" for an array-like, "other" for anything else), c its components,
\* num whether every component is a real number.
Elem(t, c, num) == [t |-> t, c |-> c, num |-> num]
Elements ==
    { Elem("gp_Pnt", <<1, 2, 3>>, TRUE),
      Elem("gp_Pnt2d", <<1, 2>>, TRUE),
      Elem("list", <<4, 5, 6>>, TRUE),
      Elem("list", <<7, 8>>, TRUE),
      Elem("list", <<0, 0, 0>>, FALSE),
      Elem("list", <<0, 0>>, FALSE),
      Elem("list", <<9, 9, 9, 9>>, TRUE),
      Elem("other", <<>>, FALSE) }

\* is_array_like: a tuple, list or array
is_array_like(p) == p.t = "list"

\* outcome of a conversion step: raised, or a value, or None
Raised == [raised |-> TRUE, none |-> FALSE, val |-> Elem("other", <<>>, FALSE)]
None == [raised |-> FALSE, none |-> TRUE, val |-> Elem("other", <<>>, FALSE)]
Val(v) == [raised |-> FALSE, none |-> FALSE, val |-> v]

\* gp_Pnt(x, y, z): the kernel constructor takes three reals and rejects
\* anything else with an error
gp_Pnt(p) == IF p.num THEN Val(Elem("gp_Pnt", p.c, TRUE)) ELSE Raised
\* gp_Pnt2d(x, y)
gp_Pnt2d(p) == IF p.num THEN Val(Elem("gp_Pnt2d", p.c, TRUE)) ELSE Raised

_to_gp_pnt(p) ==
    IF p.t = "gp_Pnt" THEN Val(p)
    ELSE IF is_array_like(p) /\ Len(p.c) = 3 THEN gp_Pnt(p)
    ELSE None

_to_gp_pnt2d(p) ==
    IF p.t = "gp_Pnt2d" THEN Val(p)
    ELSE IF is_array_like(p) /\ Len(p.c) = 2 THEN gp_Pnt2d(p)
    ELSE None

\* the loop "for gp in pnts: gp = conv(gp); if not gp: continue; append":
\* the points collected, or raised at the first element whose conversion
\* raises
RECURSIVE Collect(_, _, _)
Collect(conv, pnts, gp_pnts) ==
    IF pnts = <<>> THEN [raised |-> FALSE, gp_pnts |-> gp_pnts]
    ELSE LET gp == IF conv = "_to_gp_pnt2d" THEN _to_gp_pnt2d(Head(pnts))
                   ELSE _to_gp_pnt(Head(pnts))
         IN  IF gp.raised THEN [raised |-> TRUE, gp_pnts |-> <<>>]
             ELSE IF gp.none THEN Collect(conv, Tail(pnts), gp_pnts)
             ELSE Collect(conv, Tail(pnts), Append(gp_pnts, gp.val))

NoArray == [raised |-> TRUE, lower |-> 0, upper |-> 0, data |-> <<>>]

\* TColgp_Array1OfPnt(lower, upper) and its 2-D and handle siblings: an array
\* of default-constructed items over lower..upper.  Bounds with
\* upper < lower are a range error in a kernel built with range checks and
\* an empty array in one built without.
Array1(lower, upper, checked, dflt) ==
    IF upper < lower /\ checked THEN NoArray
    ELSE [raised |-> FALSE, lower |-> lower, upper |-> upper,
          data |-> [i \in 1..(upper - lower + 1) |-> dflt]]

SetValue(array, i, gp) ==
    [array EXCEPT !.data[i - array.lower + 1] = gp]

\* the loop "for i, gp in enumerate(gp_pnts, 1): array.SetValue(i, gp)"
RECURSIVE Fill(_, _, _)
Fill(array, gp_pnts, i) ==
    IF gp_pnts = <<>> THEN array
    ELSE Fill(SetValue(array, i, Head(gp_pnts)), Tail(gp_pnts), i + 1)

Origin == Elem("gp_Pnt", <<0, 0, 0>>, TRUE)
Origin2d == Elem("gp_Pnt2d", <<0, 0>>, TRUE)

to_tcolgp_array1_pnt(pnts, checked) ==
    LET r == Collect("_to_gp_pnt", pnts, <<>>)
        n == Len(r.gp_pnts)
        array == Array1(1, n, checked, Origin)
    IN  IF r.raised \/ array.raised THEN NoArray
        ELSE Fill(array, r.gp_pnts, 1)

to_tcolgp_array1_pnt2d(pnts, checked) ==
    LET r == Collect("_to_gp_pnt2d", pnts, <<>>)
        n == Len(r.gp_pnts)
        array == Array1(1, n, checked, Origin2d)
    IN  IF r.raised \/ array.raised THEN NoArray
        ELSE Fill(array, r.gp_pnts, 1)

to_tcolgp_harray1_pnt(pnts, checked) ==
    LET r == Collect("_to_gp_pnt", pnts, <<>>)
        n == Len(r.gp_pnts)
        harray == Array1(1, n, checked, Origin)
    IN  IF r.raised \/ harray.raised THEN NoArray
        ELSE Fill(harray, r.gp_pnts, 1)

\* a call of one conversion on a host sequence; rangeChecked is the build
\* of the kernel the process runs on
InitTcol ==
    /\ InitBop
    /\ tpc = "idle"
    /\ rangeChecked \in BOOLEAN
    /\ tfn = "none"
    /\ tin \in SeqsUpTo(Elements, MaxPnts)
    /\ tout = [raised |-> FALSE, lower |-> 0, upper |-> 0, data |-> <<>>]
    /\ tnp = <<>>

Call_to_tcolgp_array1_pnt ==
    /\ tpc = "idle"
    /\ tpc' = "done"
    /\ tfn' = "to_tcolgp_array1_pnt"
    /\ tout' = to_tcolgp_array1_pnt(tin, rangeChecked)
    /\ UNCHANGED <<tin, rangeChecked, tnp>>
    /\ UNCHANGED bopVars

Call_to_tcolgp_array1_pnt2d ==
    /\ tpc = "idle"
    /\ tpc' = "done"
    /\ tfn' = "to_tcolgp_array1_pnt2d"
    /\ tout' = to_tcolgp_array1_pnt2d(tin, rangeChecked)
    /\ UNCHANGED <<tin, rangeChecked, tnp>>
    /\ UNCHANGED bopVars

Call_to_tcolgp_harray1_pnt ==
    /\ tpc = "idle"
    /\ tpc' = "done"
    /\ tfn' = "to_tcolgp_harray1_pnt"
    /\ tout' = to_tcolgp_harray1_pnt(tin, rangeChecked)
    /\ UNCHANGED <<tin, rangeChecked, tnp>>
    /\ UNCHANGED bopVars

\* Length() and Value(i) of a kernel array
Length(array) == array.upper - array.lower + 1
Value(array, i) == array.data[i - array.lower + 1]
\* X(), Y(), Z() of a kernel point
X(p) == p.c[1]
Y(p) == p.c[2]
Z(p) == p.c[3]

\* the loop "for i in range(n): p = Value(i + 1); array[i, :] = X, Y, Z"
\* over the rows of zeros((n, 3)); row i of the host array is rows[i + 1]
RECURSIVE CopyRows(_, _, _, _)
CopyRows(tcol_array, i, n, rows) ==
    IF i >= n THEN rows
    ELSE LET p == Value(tcol_array, i + 1)
         IN  CopyRows(tcol_array, i + 1, n,
                      [rows EXCEPT ![i + 1] = <<X(p), Y(p), Z(p)>>])

to_np_from_tcolgp_array1_pnt(tcol_array) ==
    LET n == Length(tcol_array)
        array == [i \in 1..n |-> <<0, 0, 0>>]
    IN  CopyRows(tcol_array, 0, n, array)

\* the array returned by to_tcolgp_array1_pnt is converted back
Call_to_np_from_tcolgp_array1_pnt ==
    /\ tpc = "done"
    /\ tfn = "to_tcolgp_array1_pnt"
    /\ ~tout.raised
    /\ tpc' = "back"
    /\ tnp' = to_np_from_tcolgp_array1_pnt(tout)
    /\ UNCHANGED <<tin, rangeChecked, tfn, tout>>
    /\ UNCHANGED bopVars

NextTcol ==
    \/ Call_to_tcolgp_array1_pnt
    \/ Call_to_tcolgp_array1_pnt2d
    \/ Call_to_tcolgp_harray1_pnt
    \/ Call_to_np_from_tcolgp_array1_pnt

SpecTcol == InitTcol /\ [][NextTcol]_vars

(* --------------------- scalar marshalling (tcol) ----------------------- *)
\* A host scalar is [t, v, form]: t its type ("int", "float", "str",
\* "None"), v its value in tenths, form what a string spells ("int" for
\* "3", "float" for "2.5", "bad" for "abc"; "bad" for None).
Scalar(t, v, form) == [t |-> t, v |-> v, form |-> form]
Scalars ==
    { Scalar("int", 20, "int"),
      Scalar("float", 15, "float"),
      Scalar("float", -15, "float"),
      Scalar("str", 30, "int"),
      Scalar("str", 25, "float"),
      Scalar("str", 0, "bad"),
      Scalar("None", 0, "bad") }

NumRaised == [raised |-> TRUE, val |-> 0]
NumVal(v) == [raised |-> FALSE, val |-> v]

\* float(x): the value of a number or of a string spelling one; an error
\* for None and for any other string
float(x) ==
    IF x.t = "None" \/ (x.t = "str" /\ x.form = "bad") THEN NumRaised
    ELSE NumVal(x.v)

\* int(x): an int as it is, a float truncated toward zero, a string only
\* if it spells an integer; an error otherwise
int(x) ==
    IF x.t = "int" THEN NumVal(x.v)
    ELSE IF x.t = "float"
         THEN NumVal(IF x.v >= 0 THEN (x.v \div 10) * 10
                     ELSE 0 - (((0 - x.v) \div 10) * 10))
    ELSE IF x.t = "str" /\ x.form = "int" THEN NumVal(x.v)
    ELSE NumRaised

\* the comprehension "[conv(x) for x in array]": the converted values, or
\* raised at the first element whose conversion raises
RECURSIVE Comprehend(_, _, _)
Comprehend(conv, array, out) ==
    IF array = <<>> THEN [raised |-> FALSE, vals |-> out]
    ELSE LET x == IF conv = "int" THEN int(Head(array)) ELSE float(Head(array))
         IN  IF x.raised THEN [raised |-> TRUE, vals |-> <<>>]
             ELSE Comprehend(conv, Tail(array), Append(out, x.val))

\* the outcome of a scalar conversion: the array (or the error), and alloc,
\* whether the kernel array constructor was reached
Outcome(array, alloc) ==
    [raised |-> array.raised, lower |-> array.lower, upper |-> array.upper,
     data |-> array.data, alloc |-> alloc]

\* the comprehension with the elements that fail to convert left out
RECURSIVE ComprehendSkip(_, _, _)
ComprehendSkip(conv, array, out) ==
    IF array = <<>> THEN [raised |-> FALSE, vals |-> out]
    ELSE LET x == IF conv = "int" THEN int(Head(array)) ELSE float(Head(array))
         IN  IF x.raised THEN ComprehendSkip(conv, Tail(array), out)
             ELSE ComprehendSkip(conv, Tail(array), Append(out, x.val))

\* variant: elements that fail to convert are skipped, as for points
to_tcolstd_array1_real_skip(array, checked) ==
    LET flts == ComprehendSkip("float", array, <<>>)
        n == Len(flts.vals)
    IN  Outcome(Fill(Array1(1, n, checked, 0), flts.vals, 1), TRUE)

to_tcolstd_array1_real(array, checked) ==
    LET flts == Comprehend("float", array, <<>>)
        n == Len(flts.vals)
    IN  IF flts.raised THEN Outcome(NoArray, FALSE)
        ELSE Outcome(Fill(Array1(1, n, checked, 0), flts.vals, 1), TRUE)

to_tcolstd_array1_integer(array, checked) ==
    LET ints == Comprehend("int", array, <<>>)
        n == Len(ints.vals)
    IN  IF ints.raised THEN Outcome(NoArray, FALSE)
        ELSE Outcome(Fill(Array1(1, n, checked, 0), ints.vals, 1), TRUE)

\* a call of one scalar conversion on a host sequence
InitStd ==
    /\ InitBop
    /\ tpc = "idle"
    /\ rangeChecked \in BOOLEAN
    /\ tfn = "none"
    /\ tin \in SeqsUpTo(Scalars, MaxPnts)
    /\ tout = Outcome([raised |-> FALSE, lower |-> 0, upper |-> 0, data |-> <<>>],
                      FALSE)
    /\ tnp = <<>>

Call_to_tcolstd_array1_real ==
    /\ tpc = "idle"
    /\ tpc' = "done"
    /\ tfn' = "to_tcolstd_array1_real"
    /\ tout' = to_tcolstd_array1_real(tin, rangeChecked)
    /\ UNCHANGED <<tin, rangeChecked, tnp>>
    /\ UNCHANGED bopVars

Call_to_tcolstd_array1_integer ==
    /\ tpc = "idle"
    /\ tpc' = "done"
    /\ tfn' = "to_tcolstd_array1_integer"
    /\ tout' = to_tcolstd_array1_integer(tin, rangeChecked)
    /\ UNCHANGED <<tin, rangeChecked, tnp>>
    /\ UNCHANGED bopVars

NextStd ==
    \/ Call_to_tcolstd_array1_real
    \/ Call_to_tcolstd_array1_integer

SpecStd == InitStd /\ [][NextStd]_vars

(* ------------------------------ claims --------------------------------- *)
InTrace(e, m) == \E i \in DOMAIN e.trace : e.trace[i] = m
Count(e, m) == Cardinality({i \in DOMAIN e.trace : e.trace[i] = m})
Executed(e) == InTrace(e, "Build") \/ InTrace(e, "Perform")
AfterInit == pc = "ready" /\ lastCall.op = "init"

\* C1 as stated: a non-splitter instance constructed with two valid operands
\* is not done in any state before the first explicit build() call.
C1_NoAutoExecute ==
    (pc = "ready" /\ kind \in NonSplit /\ ctorValid /\ ~buildCalled)
        => ~is_done(bop)

\* C1 amended: a non-splitter instance constructed WITHOUT two valid operands
\* is not done in any state before the first explicit build() call, whatever
\* set_args / set_tools calls were made.
C1_NotDoneBeforeBuild ==
    (pc = "ready" /\ kind \in NonSplit /\ ~ctorValid /\ ~buildCalled)
        => (~is_done(bop) /\ shape(bop) = NullShape)

C1_Witness ==
    /\ pc = "ready" /\ kind \in NonSplit /\ ~ctorValid /\ ~buildCalled
    /\ bop.args # <<>> /\ bop.tools # <<>>
    /\ ~is_done(bop)

\* C2: SplitShapes constructed with two valid operands is done immediately
\* after construction, the constructor having performed the operation with
\* no explicit build() call.
C2_SplitterEager ==
    (AfterInit /\ kind = "SplitShapes" /\ ctorValid)
        => (is_done(bop) /\ ~buildCalled /\ InTrace(bop, "Perform"))

C2_Witness ==
    /\ AfterInit /\ kind = "SplitShapes" /\ ctorValid
    /\ is_done(bop) /\ ~buildCalled

\* C3: each of FuseShapes, CutShapes, CommonShapes, IntersectShapes
\* constructed with two valid operands is done and exposes a result shape
\* immediately after construction, without any build() call.
C3_DoneAfterConstruction ==
    (AfterInit /\ kind \in NonSplit /\ ctorValid)
        => (is_done(bop) /\ shape(bop) # NullShape /\ ~buildCalled)

C3_Witness ==
    /\ AfterInit /\ kind = "IntersectShapes" /\ ctorValid
    /\ is_done(bop) /\ shape(bop) # NullShape

\* the operands were supplied: by a two-valid-operand construction, or, on
\* an instance constructed without operands, by set_args and set_tools whose
\* most recent calls were each given at least one shape
OperandsSupplied ==
    \/ ctorValid /\ ~lastArgs.set /\ ~lastTools.set
    \/ /\ ~ctorValid
       /\ lastArgs.set /\ lastArgs.val # <<>>
       /\ lastTools.set /\ lastTools.val # <<>>

\* C4: for every variant, when the operands were supplied and build() is
\* then called, is_done is true when build() returns and shape is non-null.
C4_DoneAfterBuild ==
    (pc = "ready" /\ lastCall.op = "build" /\ OperandsSupplied)
        => (is_done(bop) /\ shape(bop) # NullShape)

C4_Witness ==
    /\ pc = "ready" /\ lastCall.op = "build" /\ OperandsSupplied
    /\ kind = "SplitShapes" /\ ~ctorValid
    /\ is_done(bop)

\* C5: SplitShapes constructed with two valid operands hands the engine
\* exactly one argument (shape1) and exactly one tool (shape2) before the
\* operation is executed; with an invalid operand nothing is added and
\* nothing is executed.
C5_OneArgOneTool ==
    (AfterInit /\ kind = "SplitShapes")
        => IF ctorValid
           THEN /\ Count(bop, "AddArgument") = 1
                /\ Count(bop, "AddTool") = 1
                /\ bop.args = <<lastCall.in[1]>>
                /\ bop.tools = <<lastCall.in[2]>>
                /\ bop.trace[Len(bop.trace)] = "Perform"
           ELSE /\ bop.args = <<>> /\ bop.tools = <<>>
                /\ ~Executed(bop)

\* C6: on a splitter, set_args / set_tools with a sequence of length >= 1
\* add the first element only, to the arguments (resp. the tools), whatever
\* the length of the sequence; the other role is untouched.
C6_FirstOnly ==
    [][(pc = "ready" /\ kind = "SplitShapes" /\ lastCall'.in # <<>>) =>
          /\ lastCall'.op = "set_args" =>
                /\ bop'.args = Append(bop.args, lastCall'.in[1])
                /\ bop'.tools = bop.tools
                /\ bop'.trace = <<"AddArgument">>
          /\ lastCall'.op = "set_tools" =>
                /\ bop'.tools = Append(bop.tools, lastCall'.in[1])
                /\ bop'.args = bop.args
                /\ bop'.trace = <<"AddTool">>]_vars

C6_Witness ==
    /\ pc = "ready" /\ kind = "SplitShapes"
    /\ lastCall.op = "set_args" /\ Len(lastCall.in) >= 2
    /\ lastCall.in[1] # lastCall.in[2]
    /\ bop.trace = <<"AddArgument">>

\* C7: on a non-splitter, the argument set is exactly the shapes of the most
\* recent set_args call and the tool set exactly those of the most recent
\* set_tools call; set_args leaves the tools unchanged and vice versa.
C7_Replace ==
    /\ [](kind \in NonSplit =>
             /\ lastArgs.set => bop.args = lastArgs.val
             /\ lastTools.set => bop.tools = lastTools.val)
    /\ [][(pc = "ready" /\ kind \in NonSplit) =>
             /\ lastCall'.op = "set_args" => bop'.tools = bop.tools
             /\ lastCall'.op = "set_tools" => bop'.args = bop.args]_vars

C7_Witness ==
    /\ pc = "ready" /\ kind \in NonSplit /\ ctorValid
    /\ lastArgs.set /\ lastTools.set
    /\ lastCall.op = "set_tools"
    /\ Len(bop.tools) = 2 /\ Len(bop.args) = 1

\* C8: on a splitter, in any state, refine_edges() warns, does not call the
\* engine and leaves it unchanged; section_edges warns, does not call the
\* engine and returns an empty sequence; fuse_edges is false.
C8_SplitterUnsupported ==
    [][(pc = "ready" /\ kind = "SplitShapes") =>
          /\ lastCall'.op = "refine_edges" =>
                /\ bop' = Begin(bop)
                /\ lastCall'.warn = <<"RuntimeWarning">>
          /\ lastCall'.op = "section_edges" =>
                /\ bop' = Begin(bop)
                /\ lastCall'.warn = <<"RuntimeWarning">>
                /\ lastCall'.ret = <<>>
          /\ lastCall'.op = "fuse_edges" =>
                /\ bop' = Begin(bop)
                /\ lastCall'.flag = FALSE]_vars

C8_Witness ==
    /\ pc = "ready" /\ kind = "SplitShapes"
    /\ refineCalled /\ buildCalled /\ is_done(bop)
    /\ lastCall.op = "fuse_edges" /\ lastCall.flag = FALSE

\* C9: for every variant, a construction in which at least one operand is
\* not a valid shape completes on the no-operand path: empty argument and
\* tool sets (a lone valid operand is discarded), nothing executed.
C9_NoOperandPath ==
    (lastCall.op = "init" /\ ~(is_shape(lastCall.in[1]) /\ is_shape(lastCall.in[2])))
        => /\ pc = "ready"
           /\ bop.args = <<>> /\ bop.tools = <<>>
           /\ ~Executed(bop)
           /\ ~is_done(bop) /\ shape(bop) = NullShape

C9_Witness ==
    /\ AfterInit /\ kind \in Variants
    /\ is_shape(lastCall.in[1]) /\ lastCall.in[2] = "junk"
    /\ bop.args = <<>> /\ ~is_done(bop)

\* an element that can be coerced to the point type of the conversion: a
\* kernel point of that type, or an array-like of its arity holding reals
Coercible(fn, p) ==
    IF fn = "to_tcolgp_array1_pnt2d"
    THEN p.t = "gp_Pnt2d" \/ (p.t = "list" /\ Len(p.c) = 2 /\ p.num)
    ELSE p.t = "gp_Pnt" \/ (p.t = "list" /\ Len(p.c) = 3 /\ p.num)

CoercedOf(fn, pnts) == SelectSeq(pnts, LAMBDA p : Coercible(fn, p))

\* C10: a 1-D point conversion of N elements of which K cannot be coerced
\* (0 <= K <= N) does not raise and returns an array of lower bound 1 and
\* length N - K holding the coerced elements in their original order.
C10_SkipProperty ==
    tpc = "done" =>
        LET want == CoercedOf(tfn, tin)
        IN  /\ ~tout.raised
            /\ tout.lower = 1
            /\ tout.upper = Len(want)
            /\ Len(tout.data) = Len(want)
            /\ \A i \in 1..Len(want) : tout.data[i].c = want[i].c

\* a scalar that the element type of the conversion accepts
Numeric(fn, x) ==
    IF fn = "to_tcolstd_array1_integer"
    THEN x.t \in {"int", "float"} \/ (x.t = "str" /\ x.form = "int")
    ELSE x.t \in {"int", "float"} \/ (x.t = "str" /\ x.form \in {"int", "float"})

\* C11: a scalar conversion of a sequence holding an element that cannot be
\* coerced raises, and no kernel array is created or returned (every element
\* is coerced before the array is allocated); no element is skipped: a call
\* that returns an array returns one element per input element.
C11_ScalarRaises ==
    tpc = "done" =>
        /\ (\E i \in DOMAIN tin : ~Numeric(tfn, tin[i]))
              => (tout.raised /\ ~tout.alloc /\ tout.data = <<>>)
        /\ ~tout.raised => Len(tout.data) = Len(tin)

C11_Witness ==
    /\ tpc = "done" /\ tfn = "to_tcolstd_array1_real"
    /\ Len(tin) = 3
    /\ Numeric(tfn, tin[1]) /\ ~Numeric(tfn, tin[2]) /\ Numeric(tfn, tin[3])
    /\ tout.raised /\ ~tout.alloc

\* the coordinates (x, y, z) of a valid host 3-D point
CoordsOf(p) == <<p.c[1], p.c[2], p.c[3]>>
AllValid3d(pnts) ==
    \A i \in DOMAIN pnts : Coercible("to_tcolgp_array1_pnt", pnts[i])

IsPrefix(a, b) == Len(a) <= Len(b) /\ SubSeq(b, 1, Len(a)) = a

\* C13: on a splitter, set_args / set_tools given a non-empty sequence never
\* remove an operand: each call appends one shape, so the engine holds all
\* the first elements accumulated so far (with what the constructor, add_arg
\* and add_tool added), not just the last; only a call with an empty
\* sequence reaches the engine's set-all operation, with an empty list.
C13_Accumulate ==
    /\ [](kind = "SplitShapes" =>
             (bop.args = acc.args /\ bop.tools = acc.tools))
    /\ [][(pc = "ready" /\ kind = "SplitShapes"
            /\ lastCall'.op \in {"set_args", "set_tools"}) =>
             IF lastCall'.in # <<>>
             THEN /\ IsPrefix(bop.args, bop'.args)
                  /\ IsPrefix(bop.tools, bop'.tools)
                  /\ ~InTrace(bop', "SetArguments") /\ ~InTrace(bop', "SetTools")
             ELSE IF lastCall'.op = "set_args"
                  THEN bop'.trace = <<"SetArguments">> /\ bop'.args = <<>>
                  ELSE bop'.trace = <<"SetTools">> /\ bop'.tools = <<>>]_vars

C13_Witness ==
    /\ pc = "ready" /\ kind = "SplitShapes" /\ ~ctorValid /\ ~acc.byAdd
    /\ lastCall.op = "set_args" /\ lastCall.in # <<>>
    /\ Len(bop.args) = 2 /\ bop.args[1] # bop.args[2]
    /\ bop.args[2] = lastCall.in[1]
====
